---- MODULE Spec2Model ----
(***************************************************************************)
(* A model of sphinx_multiversion: git.get_refs (the ref filter) and       *)
(* main() (ordering of the refs, the metadata loop, the development        *)
(* version, --dump-metadata, the landing page and the build loop).         *)
(*                                                                         *)
(* Strings that the code inspects character by character (ref names, ref   *)
(* sources, regular expressions) are sequences of tokens: a digit, a dot,  *)
(* a slash or a run of other characters.                                   *)
(***************************************************************************)
EXTENDS Integers, Sequences, FiniteSets, TLC

\* Bounds of the model.
MaxRefs == 3
FracDigits == 2

\* Python's None, where the other values are strings.
None == <<"None">>

(***************************************************************************)
(* Strings                                                                 *)
(***************************************************************************)
Digits == {"0", "1", "2", "3", "4", "5", "6", "7", "8", "9"}

DigitValue(t) ==
    CASE t = "0" -> 0 [] t = "1" -> 1 [] t = "2" -> 2 [] t = "3" -> 3
      [] t = "4" -> 4 [] t = "5" -> 5 [] t = "6" -> 6 [] t = "7" -> 7
      [] t = "8" -> 8 [] t = "9" -> 9

\* The code point of the first character of a token (the order of str.__lt__).
Ord(t) ==
    CASE t = "." -> 46 [] t = "/" -> 47
      [] t \in Digits -> 48 + DigitValue(t)
      [] t = "c" -> 99 [] t = "dev" -> 100 [] t = "docs" -> 100
      [] t = "fork" -> 102 [] t = "heads" -> 104 [] t = "main" -> 109
      [] t = "origin" -> 111 [] t = "refs" -> 114 [] t = "remotes" -> 114
      [] t = "tags" -> 116 [] t = "v" -> 118

RECURSIVE StrLess(_, _)
StrLess(a, b) ==
    IF b = <<>> THEN FALSE
    ELSE IF a = <<>> THEN TRUE
    ELSE IF Ord(Head(a)) # Ord(Head(b)) THEN Ord(Head(a)) < Ord(Head(b))
    ELSE StrLess(Tail(a), Tail(b))

\* str.partition(sep)[2]: what follows the first occurrence of sep.
RECURSIVE PartitionTail(_, _)
PartitionTail(s, sep) ==
    IF s = <<>> THEN <<>>
    ELSE IF Head(s) = sep THEN Tail(s)
    ELSE PartitionTail(Tail(s), sep)

\* re.match of a literal pattern: the pattern is a prefix of the string.
re_match(pattern, s) ==
    /\ Len(pattern) <= Len(s)
    /\ \A n \in 1..Len(pattern) : pattern[n] = s[n]

(***************************************************************************)
(* The repository: the refs `git for-each-ref` can list, in its order      *)
(* (sorted by refname), each with the files its tree holds.                *)
(***************************************************************************)
GitVersionRef(name, commit, source, is_remote, creatordate, files) ==
    [name |-> name, commit |-> commit, source |-> source,
     is_remote |-> is_remote, creatordate |-> creatordate, files |-> files]

refname(ref) == <<"refs", "/">> \o ref.source \o <<"/">> \o ref.name

DocTree == {"docs", "docs/conf.py", "./conf.py"}

Repository ==
    << GitVersionRef(<<"main">>, <<"c", "4">>, <<"heads">>, FALSE, 6, DocTree),
       GitVersionRef(<<"v", "1", ".", "9">>, <<"c", "1">>, <<"heads">>, FALSE, 2, DocTree),
       GitVersionRef(<<"v", "1", ".", "9">>, <<"c", "2">>,
                     <<"remotes", "/", "origin">>, TRUE, 3, DocTree),
       GitVersionRef(<<"v", "0", ".", "9">>, <<"c", "0">>, <<"tags">>, FALSE, 1,
                     {"docs", "./conf.py"}),
       GitVersionRef(<<"v", "1", ".", "1", "0">>, <<"c", "3">>, <<"tags">>, FALSE, 4, DocTree),
       GitVersionRef(<<"v", "2", ".", "0">>, <<"c", "2">>, <<"tags">>, FALSE, 5, DocTree) >>

RECURSIVE SubSeqs(_)
SubSeqs(s) ==
    IF s = <<>> THEN {<<>>}
    ELSE LET rest == SubSeqs(Tail(s))
         IN  rest \cup {<<Head(s)>> \o r : r \in rest}

RefLists == {s \in SubSeqs(Repository) : Len(s) <= MaxRefs}

(***************************************************************************)
(* git.get_refs                                                            *)
(***************************************************************************)
\* git cat-file -e <refname>:<filename>
file_exists(ref, filename) == filename \in ref.files

\* Mutant of whitelist_skips: a remote ref is tested against the remote
\* whitelist only, not against the branch whitelist.
whitelist_skips_remote_only(ref, tag_whitelist, branch_whitelist, remote_whitelist) ==
    IF ref.source = <<"tags">>
    THEN tag_whitelist = None \/ ~re_match(tag_whitelist, ref.name)
    ELSE IF ref.source = <<"heads">>
    THEN branch_whitelist = None \/ ~re_match(branch_whitelist, ref.name)
    ELSE IF ref.is_remote /\ remote_whitelist # None
    THEN ~re_match(remote_whitelist, PartitionTail(ref.source, "/"))
    ELSE TRUE

\* The whitelist branches of get_refs: TRUE when the ref is skipped by them.
whitelist_skips(ref, tag_whitelist, branch_whitelist, remote_whitelist) ==
    IF ref.source = <<"tags">>
    THEN tag_whitelist = None \/ ~re_match(tag_whitelist, ref.name)
    ELSE IF ref.source = <<"heads">>
    THEN branch_whitelist = None \/ ~re_match(branch_whitelist, ref.name)
    ELSE IF ref.is_remote /\ remote_whitelist # None
    THEN LET remote_name == PartitionTail(ref.source, "/")
         IN  \/ ~re_match(remote_whitelist, remote_name)
             \/ branch_whitelist = None
             \/ ~re_match(branch_whitelist, ref.name)
    ELSE TRUE

missing_files(ref, files) ==
    {n \in 1..Len(files) : files[n] # "." /\ ~file_exists(ref, files[n])}

\* One iteration of the loop of get_refs: TRUE when the ref is yielded.
yields(ref, tag_whitelist, branch_whitelist, remote_whitelist, files) ==
    /\ ~whitelist_skips(ref, tag_whitelist, branch_whitelist, remote_whitelist)
    /\ missing_files(ref, files) = {}

(***************************************************************************)
(* The ordering of the refs in main()                                      *)
(***************************************************************************)
RECURSIVE DigitRun(_, _)
DigitRun(s, n) ==
    IF n > Len(s) \/ s[n] \notin Digits THEN <<>>
    ELSE <<s[n]>> \o DigitRun(s, n + 1)

RECURSIVE LeadLen(_)
LeadLen(s) ==
    IF s = <<>> \/ Head(s) \in Digits THEN 0 ELSE 1 + LeadLen(Tail(s))

SetMax(S) == CHOOSE x \in S : \A y \in S : y <= x

\* re.match(r"^[^\d]*(\d*\.\d*).*$", s): group 1 as the digits before and after
\* the dot, found in the order the backtracking matcher tries the splits.
symver_match(s) ==
    LET lead == LeadLen(s)
        before == DigitRun(s, lead + 1)
        dot == lead + Len(before) + 1
        dots == {p \in 1..lead : s[p] = "."}
    IN  IF before # <<>> /\ dot <= Len(s) /\ s[dot] = "."
        THEN [matched |-> TRUE, major |-> before, minor |-> DigitRun(s, dot + 1)]
        ELSE IF dots # {}
        THEN [matched |-> TRUE, major |-> <<>>, minor |-> DigitRun(s, SetMax(dots) + 1)]
        ELSE [matched |-> FALSE, major |-> <<>>, minor |-> <<>>]

RECURSIVE Number(_)
Number(ds) ==
    IF ds = <<>> THEN 0
    ELSE 10 * Number(SubSeq(ds, 1, Len(ds) - 1)) + DigitValue(ds[Len(ds)])

RECURSIVE Pow10(_)
Pow10(n) == IF n <= 0 THEN 1 ELSE 10 * Pow10(n - 1)

\* float("<major>.<minor>"), scaled by 10^FracDigits to stay in the integers.
float(g) == Number(g.major) * Pow10(FracDigits)
                + Number(g.minor) * Pow10(FracDigits - Len(g.minor))

\* The sort key of line 290 raises for a refname without a version
\* (AttributeError on None) or with a bare dot (ValueError in float).
symver_raises(ref) ==
    LET g == symver_match(refname(ref))
    IN  ~g.matched \/ (g.major = <<>> /\ g.minor = <<>>)

symver_key(ref) == float(symver_match(refname(ref)))

\* The key of lines 283/285: (flag, *ref), compared as Python compares tuples.
\* Two refs with the same name, commit and source are the same ref.
preference_less(x, y, prefer_remote) ==
    LET fx == IF prefer_remote THEN ~x.is_remote ELSE x.is_remote
        fy == IF prefer_remote THEN ~y.is_remote ELSE y.is_remote
    IN  IF fx # fy THEN fy
        ELSE IF x.name # y.name THEN StrLess(x.name, y.name)
        ELSE IF x.commit # y.commit THEN StrLess(x.commit, y.commit)
        ELSE IF x.source # y.source THEN StrLess(x.source, y.source)
        ELSE x.creatordate < y.creatordate

symver_less(x, y) == symver_key(x) < symver_key(y)

\* sorted() is stable: an element goes before the first one that is greater.
RECURSIVE InsertByPreference(_, _, _)
InsertByPreference(x, s, prefer_remote) ==
    IF s = <<>> THEN <<x>>
    ELSE IF preference_less(x, Head(s), prefer_remote) THEN <<x>> \o s
    ELSE <<Head(s)>> \o InsertByPreference(x, Tail(s), prefer_remote)

RECURSIVE SortedByPreference(_, _)
SortedByPreference(s, prefer_remote) ==
    IF s = <<>> THEN <<>>
    ELSE InsertByPreference(s[Len(s)],
                            SortedByPreference(SubSeq(s, 1, Len(s) - 1), prefer_remote),
                            prefer_remote)

RECURSIVE InsertBySymver(_, _)
InsertBySymver(x, s) ==
    IF s = <<>> THEN <<x>>
    ELSE IF symver_less(x, Head(s)) THEN <<x>> \o s
    ELSE <<Head(s)>> \o InsertBySymver(x, Tail(s))

RECURSIVE SortedBySymver(_)
SortedBySymver(s) ==
    IF s = <<>> THEN <<>>
    ELSE InsertBySymver(s[Len(s)], SortedBySymver(SubSeq(s, 1, Len(s) - 1)))

(***************************************************************************)
(* The state of a run of main()                                            *)
(***************************************************************************)
VARIABLES
    allrefs,            \* what git.get_all_refs lists
    config,             \* the smv_* settings of conf.py
    args,               \* the command line
    pc,                 \* the position of main()
    k,                  \* get_refs: the index of the next ref of allrefs
    gitrefs,            \* the refs get_refs has yielded, then the sorted list
    i,                  \* metadata loop: the index of the next ref of gitrefs
    metadata,           \* the dict, as its items in insertion order
    outputdirs,         \* the set of claimed output directories
    released_versions,  \* the list of released names
    log,                \* what each iteration of the metadata loop did
    dirs,               \* the directories that exist on disk
    b,                  \* build loop: the index of the next item of metadata
    builds,             \* the sphinx subprocesses started, in order
    static_updated,     \* the output directories _update_static_path rewrote
    redirect,           \* the path written into _static/index.html, or None
    versions_json,      \* TRUE once versions.json is written
    dumped,             \* what --dump-metadata printed
    rc                  \* the return value of main() (-1 until it returns)

vars == <<allrefs, config, args, pc, k, gitrefs, i, metadata, outputdirs,
          released_versions, log, dirs, b, builds, static_updated, redirect,
          versions_json, dumped, rc>>

inputs == <<allrefs, config, args>>
collected == <<metadata, outputdirs, released_versions>>
effects == <<dirs, builds, static_updated, redirect, versions_json, dumped>>

\* os.path.join(a, b) for a relative b ("" included).
os_path_join(a, p) == a \o <<"/">> \o p

\* os.path.abspath(args.outputdir)
OutputRoot == <<"/", "html">>

V19 == <<"v", "1", ".", "9">>

\* files=(sourcedir, conffile) of line 278, conffile = join(confdir, "conf.py").
required_files(sourcedir) ==
    IF sourcedir = "." THEN <<".", "./conf.py">> ELSE <<"docs", "docs/conf.py">>

\* config.smv_outputdir_format.format(ref=gitref, config=current_config)
format_outputdir(fmt, ref) ==
    IF fmt = "{ref.commit}" THEN ref.commit ELSE ref.name

Whitelists == {None, <<>>, <<"v">>}
RemoteWhitelists == {None, <<>>, <<"fork">>}
OutputdirFormats == {"{ref.name}", "{ref.commit}"}
ReleasedPattern == <<"refs", "/", "tags", "/">>

Configs(tags, branches, remotes) ==
    [smv_tag_whitelist : tags, smv_branch_whitelist : branches,
     smv_remote_whitelist : remotes, smv_prefer_remote_refs : BOOLEAN,
     smv_outputdir_format : OutputdirFormats,
     smv_released_pattern : {ReleasedPattern}]

\* --dev-name and --dev-path
DevChoices ==
    {<<None, None>>, <<<<"dev">>, None>>, <<<<"dev">>, V19>>, <<V19, None>>}

\* --dump-metadata, --skip-if-outputdir-exists and the directories on disk
ExistingDirs == {os_path_join(OutputRoot, <<>>), os_path_join(OutputRoot, V19)}
RunChoices ==
    {<<TRUE, FALSE, {}>>}
        \cup {<<FALSE, skip, d>> : skip \in BOOLEAN, d \in {{}, ExistingDirs}}

Start(refs, cfg, sourcedir, dev, run) ==
    /\ allrefs = refs
    /\ config = cfg
    /\ args = [sourcedir |-> sourcedir, dev_name |-> dev[1], dev_path |-> dev[2],
               dump_metadata |-> run[1], skip_if_outputdir_exists |-> run[2]]
    /\ dirs = run[3]
    /\ pc = "get_refs"
    /\ k = 1
    /\ gitrefs = <<>>
    /\ i = 1
    /\ metadata = <<>>
    /\ outputdirs = {}
    /\ released_versions = <<>>
    /\ log = <<>>
    /\ b = 1
    /\ builds = <<>>
    /\ static_updated = {}
    /\ redirect = None
    /\ versions_json = FALSE
    /\ dumped = <<>>
    /\ rc = -1

Init ==
    \E refs \in RefLists, cfg \in Configs({<<>>}, {<<>>, <<"v">>}, {<<>>}),
       dev \in DevChoices, run \in RunChoices :
        Start(refs, cfg, "docs", dev, run)

InitGetRefs ==
    \E refs \in RefLists, cfg \in Configs(Whitelists, Whitelists, RemoteWhitelists),
       sourcedir \in {".", "docs"} :
        /\ cfg.smv_prefer_remote_refs = FALSE
        /\ cfg.smv_outputdir_format = "{ref.name}"
        /\ Start(refs, cfg, sourcedir, <<None, None>>, <<TRUE, FALSE, {}>>)

(***************************************************************************)
(* git.get_refs: one iteration of its loop over get_all_refs               *)
(***************************************************************************)
get_refs ==
    /\ pc = "get_refs"
    /\ k <= Len(allrefs)
    /\ gitrefs' = IF yields(allrefs[k], config.smv_tag_whitelist,
                            config.smv_branch_whitelist, config.smv_remote_whitelist,
                            required_files(args.sourcedir))
                  THEN Append(gitrefs, allrefs[k])
                  ELSE gitrefs
    /\ k' = k + 1
    /\ UNCHANGED <<inputs, pc, i, collected, log, b, effects, rc>>

(***************************************************************************)
(* main(): lines 281-291, both sorts                                       *)
(***************************************************************************)
order_refs ==
    /\ pc = "get_refs"
    /\ k > Len(allrefs)
    /\ IF \E n \in 1..Len(gitrefs) : symver_raises(gitrefs[n])
       THEN /\ pc' = "raised"
            /\ UNCHANGED gitrefs
       ELSE /\ pc' = "metadata"
            /\ gitrefs' = SortedBySymver(
                              SortedByPreference(gitrefs, config.smv_prefer_remote_refs))
    /\ UNCHANGED <<inputs, k, i, collected, log, b, effects, rc>>

(***************************************************************************)
(* main(): the metadata loop, lines 300-362                                *)
(***************************************************************************)
\* metadata[name] = entry: a new key goes last, an old key keeps its place.
dict_set(d, name, entry) ==
    IF \E n \in 1..Len(d) : d[n].name = name
    THEN [n \in 1..Len(d) |-> IF d[n].name = name THEN entry ELSE d[n]]
    ELSE Append(d, entry)

\* git.copy_tree raises OSError or CalledProcessError (lines 303-311).
copy_tree_fails ==
    /\ pc = "metadata"
    /\ i <= Len(gitrefs)
    /\ log' = Append(log, "copy_failed")
    /\ i' = i + 1
    /\ UNCHANGED <<inputs, pc, k, gitrefs, collected, b, effects, rc>>

\* Mutant of load_config_fails: the output directory is claimed before the
\* config is loaded.
load_config_fails_after_claim ==
    /\ pc = "metadata"
    /\ i <= Len(gitrefs)
    /\ log' = Append(log, "config_failed")
    /\ outputdirs' = outputdirs
           \cup {format_outputdir(config.smv_outputdir_format, gitrefs[i])}
    /\ i' = i + 1
    /\ UNCHANGED <<inputs, pc, k, gitrefs, metadata, released_versions, b, effects, rc>>

\* _load_sphinx_config raises OSError or ConfigError (lines 315-323).
load_config_fails ==
    /\ pc = "metadata"
    /\ i <= Len(gitrefs)
    /\ log' = Append(log, "config_failed")
    /\ i' = i + 1
    /\ UNCHANGED <<inputs, pc, k, gitrefs, collected, b, effects, rc>>

\* Lines 325-362: the tree copy and the config load succeeded.
collect_ref ==
    /\ pc = "metadata"
    /\ i <= Len(gitrefs)
    /\ LET gitref == gitrefs[i]
           outputdir == format_outputdir(config.smv_outputdir_format, gitref)
           is_released == re_match(config.smv_released_pattern, refname(gitref))
           entry == [name |-> gitref.name,
                     is_released |-> is_released,
                     source |-> gitref.source,
                     basedir |-> gitref.commit,
                     outputdir |-> os_path_join(OutputRoot, outputdir)]
       IN  IF outputdir \in outputdirs
           THEN /\ log' = Append(log, "conflict")
                /\ UNCHANGED collected
           ELSE /\ log' = Append(log, "collected")
                /\ outputdirs' = outputdirs \cup {outputdir}
                /\ metadata' = dict_set(metadata, gitref.name, entry)
                /\ released_versions' = IF is_released
                                        THEN Append(released_versions, gitref.name)
                                        ELSE released_versions
    /\ i' = i + 1
    /\ UNCHANGED <<inputs, pc, k, gitrefs, b, effects, rc>>

(***************************************************************************)
(* main(): the development version, lines 364-397                          *)
(***************************************************************************)
dev_entry ==
    [name |-> args.dev_name,
     is_released |-> FALSE,
     source |-> <<"heads">>,
     basedir |-> <<"gitroot">>,
     outputdir |-> os_path_join(OutputRoot,
                                IF args.dev_path = None THEN <<>> ELSE args.dev_path)]

add_dev_version ==
    /\ pc = "metadata"
    /\ i > Len(gitrefs)
    /\ args.dev_name # None
    /\ metadata' = dict_set(metadata, args.dev_name, dev_entry)
    /\ pc' = "dump"
    /\ UNCHANGED <<inputs, k, gitrefs, i, outputdirs, released_versions, log, b,
                   effects, rc>>

\* _load_sphinx_config raises for the development version: main() re-raises.
dev_config_fails ==
    /\ pc = "metadata"
    /\ i > Len(gitrefs)
    /\ args.dev_name # None
    /\ pc' = "raised"
    /\ UNCHANGED <<inputs, k, gitrefs, i, collected, log, b, effects, rc>>

no_dev_version ==
    /\ pc = "metadata"
    /\ i > Len(gitrefs)
    /\ args.dev_name = None
    /\ pc' = "dump"
    /\ UNCHANGED <<inputs, k, gitrefs, i, collected, log, b, effects, rc>>

(***************************************************************************)
(* main(): lines 399-421                                                   *)
(***************************************************************************)
\* Mutant of dump_metadata: the dump comes after the test for empty metadata.
dump_metadata_after_empty_test ==
    /\ pc = "dump"
    /\ args.dump_metadata
    /\ IF metadata = <<>>
       THEN rc' = 2 /\ UNCHANGED dumped
       ELSE rc' = 0 /\ dumped' = Append(dumped, metadata)
    /\ pc' = "return"
    /\ UNCHANGED <<inputs, k, gitrefs, i, collected, log, b, dirs, builds,
                   static_updated, redirect, versions_json>>

dump_metadata ==
    /\ pc = "dump"
    /\ args.dump_metadata
    /\ dumped' = Append(dumped, metadata)
    /\ rc' = 0
    /\ pc' = "return"
    /\ UNCHANGED <<inputs, k, gitrefs, i, collected, log, b, dirs, builds,
                   static_updated, redirect, versions_json>>

no_matching_refs ==
    /\ pc = "dump"
    /\ ~args.dump_metadata
    /\ metadata = <<>>
    /\ rc' = 2
    /\ pc' = "return"
    /\ UNCHANGED <<inputs, k, gitrefs, i, collected, log, b, effects>>

\* Mutant of redirection_path: the first released version, not the last.
redirection_path_first(released) ==
    IF Len(released) > 0
    THEN <<"..", "/", "versions", "/">> \o released[1] \o <<"/", "index.html">>
    ELSE <<"..", "/", "index.html">>

\* redirection_path of lines 410-415
redirection_path(released) ==
    IF Len(released) > 0
    THEN <<"..", "/", "versions", "/">> \o released[Len(released)]
             \o <<"/", "index.html">>
    ELSE <<"..", "/", "index.html">>

write_redirect ==
    /\ pc = "dump"
    /\ ~args.dump_metadata
    /\ metadata # <<>>
    /\ redirect' = redirection_path(released_versions)
    /\ pc' = "write_metadata"
    /\ UNCHANGED <<inputs, k, gitrefs, i, collected, log, b, dirs, builds,
                   static_updated, versions_json, dumped, rc>>

write_metadata ==
    /\ pc = "write_metadata"
    /\ versions_json' = TRUE
    /\ pc' = "build"
    /\ UNCHANGED <<inputs, k, gitrefs, i, collected, log, b, dirs, builds,
                   static_updated, redirect, dumped, rc>>

(***************************************************************************)
(* main(): the build loop, lines 425-484                                   *)
(***************************************************************************)
\* Mutant of skips_build: the development version is skipped like the others.
skips_build_dev_too(data) ==
    /\ args.skip_if_outputdir_exists
    /\ data.outputdir \in dirs

\* The test of lines 428-429.
skips_build(data) ==
    /\ args.skip_if_outputdir_exists
    /\ data.outputdir \in dirs
    /\ data.name # args.dev_name

skip_version ==
    /\ pc = "build"
    /\ b <= Len(metadata)
    /\ skips_build(metadata[b])
    /\ b' = b + 1
    /\ UNCHANGED <<inputs, pc, k, gitrefs, i, collected, log, effects, rc>>

sphinx_invocation(data, ok) ==
    [smv_current_version |-> data.name,
     smv_latest_version |-> IF Len(released_versions) > 0
                            THEN released_versions[Len(released_versions)]
                            ELSE args.dev_name,
     outputdir |-> data.outputdir,
     cwd |-> data.basedir,
     ok |-> ok]

\* Lines 437-482 with a sphinx subprocess that exits with 0.
build_version ==
    /\ pc = "build"
    /\ b <= Len(metadata)
    /\ ~skips_build(metadata[b])
    /\ dirs' = dirs \cup {metadata[b].outputdir}
    /\ builds' = Append(builds, sphinx_invocation(metadata[b], TRUE))
    /\ static_updated' =
           IF args.dev_name # None /\ metadata[b].name # args.dev_name
           THEN static_updated \cup {metadata[b].outputdir}
           ELSE static_updated
    /\ b' = b + 1
    /\ UNCHANGED <<inputs, pc, k, gitrefs, i, collected, log, redirect,
                   versions_json, dumped, rc>>

\* Mutant of build_fails: the error is caught and the loop goes on.
build_fails_and_continues ==
    /\ pc = "build"
    /\ b <= Len(metadata)
    /\ ~skips_build(metadata[b])
    /\ dirs' = dirs \cup {metadata[b].outputdir}
    /\ builds' = Append(builds, sphinx_invocation(metadata[b], FALSE))
    /\ b' = b + 1
    /\ UNCHANGED <<inputs, pc, k, gitrefs, i, collected, log, static_updated,
                   redirect, versions_json, dumped, rc>>

\* subprocess.check_call raises CalledProcessError: nothing in main() catches it.
build_fails ==
    /\ pc = "build"
    /\ b <= Len(metadata)
    /\ ~skips_build(metadata[b])
    /\ dirs' = dirs \cup {metadata[b].outputdir}
    /\ builds' = Append(builds, sphinx_invocation(metadata[b], FALSE))
    /\ pc' = "raised"
    /\ UNCHANGED <<inputs, k, gitrefs, i, collected, log, b, static_updated,
                   redirect, versions_json, dumped, rc>>

return_0 ==
    /\ pc = "build"
    /\ b > Len(metadata)
    /\ rc' = 0
    /\ pc' = "return"
    /\ UNCHANGED <<inputs, k, gitrefs, i, collected, log, b, effects>>

Next ==
    \/ get_refs
    \/ order_refs
    \/ copy_tree_fails
    \/ load_config_fails
    \/ collect_ref
    \/ add_dev_version
    \/ dev_config_fails
    \/ no_dev_version
    \/ dump_metadata
    \/ no_matching_refs
    \/ write_redirect
    \/ write_metadata
    \/ skip_version
    \/ build_version
    \/ build_fails
    \/ return_0

Spec == Init /\ [][Next]_vars

\* get_refs alone, over every combination of whitelists.
SpecGetRefs == InitGetRefs /\ [][get_refs]_vars

(***************************************************************************)
(* Properties                                                              *)
(***************************************************************************)
Processed == 1..Len(log)
Collected == {n \in Processed : log[n] = "collected"}
OutputdirOf(ref) ==
    os_path_join(OutputRoot, format_outputdir(config.smv_outputdir_format, ref))
IsReleasedRef(ref) == re_match(config.smv_released_pattern, refname(ref))
BuildsOf(name, outputdir) ==
    {n \in 1..Len(builds) : /\ builds[n].smv_current_version = name
                            /\ builds[n].outputdir = outputdir}
MetadataDone == pc \in {"dump", "write_metadata", "build", "return"}
FullRun == /\ pc = "return" /\ rc = 0
           /\ ~args.dump_metadata /\ ~args.skip_if_outputdir_exists

\* C1: in a run that goes through the build loop (no --dump-metadata, no
\* --skip-if-outputdir-exists, every build succeeds), every ref that was
\* collected (tree copy and config load succeeded, output directory not yet
\* claimed) has its own metadata entry and exactly one sphinx build with
\* smv_current_version set to its name.
C1_EveryCollectedRefBuiltOnce ==
    FullRun =>
        \A n \in Collected :
            /\ \E m \in 1..Len(metadata) :
                   /\ metadata[m].name = gitrefs[n].name
                   /\ metadata[m].source = gitrefs[n].source
                   /\ metadata[m].outputdir = OutputdirOf(gitrefs[n])
            /\ Cardinality(BuildsOf(gitrefs[n].name, OutputdirOf(gitrefs[n]))) = 1

\* C2: the landing page redirects to ../versions/<name>/index.html, <name> the
\* collected released ref that is last in the sorted order (and has the greatest
\* version key among them), or to ../index.html when no collected ref is released.
C2_RedirectsToLatestRelease ==
    redirect # None =>
        LET released == {n \in Collected : IsReleasedRef(gitrefs[n])}
        IN  IF released # {}
            THEN LET last == SetMax(released)
                 IN  /\ redirect = <<"..", "/", "versions", "/">>
                                       \o gitrefs[last].name \o <<"/", "index.html">>
                     /\ \A n \in released :
                            symver_key(gitrefs[n]) <= symver_key(gitrefs[last])
            ELSE redirect = <<"..", "/", "index.html">>

C2_Witness ==
    /\ redirect # None
    /\ \E m, n \in Collected :
           /\ m < n
           /\ IsReleasedRef(gitrefs[m]) /\ IsReleasedRef(gitrefs[n])
           /\ gitrefs[m].name # gitrefs[n].name

FailedBuilds == {n \in 1..Len(builds) : ~builds[n].ok}

\* C3 as stated: when the build of one version fails, every remaining version
\* of metadata is still built in the same run.
C3_RemainingVersionsStillBuilt ==
    (pc \in {"return", "raised"} /\ FailedBuilds # {}) =>
        \A m \in 1..Len(metadata) :
            \/ skips_build(metadata[m])
            \/ \E n \in 1..Len(builds) :
                   builds[n].smv_current_version = metadata[m].name

\* C3, amended: a failed build ends main() with the exception: the failed
\* build is the last subprocess of the run, main() returns nothing, and no
\* version after the failed one is built.
C3_FailedBuildEndsRun ==
    \A n \in FailedBuilds :
        /\ n = Len(builds)
        /\ pc = "raised" /\ rc = -1
        /\ b <= Len(metadata)
        /\ metadata[b].name = builds[n].smv_current_version
        /\ \A m \in (b + 1)..Len(metadata) :
               \A j \in 1..Len(builds) :
                   builds[j].smv_current_version # metadata[m].name

C3_Witness ==
    /\ FailedBuilds # {}
    /\ b < Len(metadata)
    /\ Len(builds) > 1

\* C4: an iteration of the metadata loop in which copy_tree or
\* _load_sphinx_config raises leaves metadata, outputdirs and released_versions
\* unchanged and goes on with the next ref; each ref is tried once.
C4_FailedRefIsSkipped ==
    [][(/\ Len(log') = Len(log) + 1
        /\ log'[Len(log')] \in {"copy_failed", "config_failed"})
       => /\ UNCHANGED <<metadata, outputdirs, released_versions>>
          /\ Len(log) = i - 1
          /\ i' = i + 1
          /\ pc' = "metadata"]_vars

C4_Witness ==
    /\ \E n \in Processed :
           /\ n + 1 \in Processed
           /\ log[n] \in {"copy_failed", "config_failed"}
           /\ log[n + 1] = "collected"
    /\ \E n \in Processed : log[n] = "copy_failed"
    /\ \E n \in Processed : log[n] = "config_failed"

\* The whitelist rule of C5, stated per kind of ref.
PassesWhitelist(ref) ==
    \/ /\ ref.source = <<"tags">>
       /\ config.smv_tag_whitelist # None
       /\ re_match(config.smv_tag_whitelist, ref.name)
    \/ /\ ref.source = <<"heads">>
       /\ config.smv_branch_whitelist # None
       /\ re_match(config.smv_branch_whitelist, ref.name)
    \/ /\ ref.is_remote
       /\ config.smv_remote_whitelist # None
       /\ re_match(config.smv_remote_whitelist, SubSeq(ref.source, 3, Len(ref.source)))
       /\ config.smv_branch_whitelist # None
       /\ re_match(config.smv_branch_whitelist, ref.name)

HasRequiredFiles(ref) ==
    \A f \in {"docs", "docs/conf.py", "./conf.py"} :
        (\E n \in {1, 2} : required_files(args.sourcedir)[n] = f) => f \in ref.files

ShouldYield(ref) == PassesWhitelist(ref) /\ HasRequiredFiles(ref)

\* C5: get_refs yields exactly the refs that pass their whitelist and hold
\* every required file other than ".", in the order of get_all_refs; no remote
\* ref is yielded when remote_whitelist is None.
C5_GetRefsYieldsExactlyPassingRefs ==
    pc = "get_refs" =>
        /\ gitrefs = SelectSeq(SubSeq(allrefs, 1, k - 1), ShouldYield)
        /\ config.smv_remote_whitelist = None =>
               \A n \in 1..Len(gitrefs) : ~gitrefs[n].is_remote

C5_Witness ==
    /\ pc = "get_refs"
    /\ k > Len(allrefs)
    /\ Len(allrefs) = 3
    /\ Len(gitrefs) = 2
    /\ gitrefs[1].is_remote
    /\ gitrefs[2].source = <<"tags">>
    /\ args.sourcedir = "."

\* C6: with --dump-metadata no sphinx subprocess is started, no directory is
\* created, neither the redirect page nor versions.json is written, and main()
\* returns 0 after printing the metadata, empty or not.
C6_DumpMetadataOnly ==
    args.dump_metadata =>
        /\ builds = <<>>
        /\ dirs = {}
        /\ static_updated = {}
        /\ redirect = None
        /\ ~versions_json
        /\ pc = "return" => (rc = 0 /\ dumped = <<metadata>>)

C6_Witness ==
    /\ args.dump_metadata
    /\ pc = "return"
    /\ dumped = <<metadata>>
    /\ Len(metadata) >= 2

\* C7: in the build loop, with --skip-if-outputdir-exists a version whose
\* output directory exists at its turn is not built (no subprocess, no
\* static-path rewrite) and the loop goes on, unless it is the development
\* version; every other version at its turn gets a sphinx subprocess.
C7_SkipsOnlyExistingOutputdirs ==
    [][(pc = "build" /\ b <= Len(metadata))
       => LET data == metadata[b]
          IN  IF /\ args.skip_if_outputdir_exists
                 /\ data.outputdir \in dirs
                 /\ data.name # args.dev_name
              THEN /\ builds' = builds
                   /\ static_updated' = static_updated
                   /\ dirs' = dirs
                   /\ b' = b + 1
                   /\ pc' = "build"
              ELSE /\ Len(builds') = Len(builds) + 1
                   /\ builds'[Len(builds')].smv_current_version = data.name
                   /\ builds'[Len(builds')].outputdir = data.outputdir]_vars

C7_Witness ==
    /\ args.skip_if_outputdir_exists
    /\ pc = "return"
    /\ Len(metadata) = 3
    /\ Len(builds) = 2
    /\ \E n \in 1..Len(builds) :
           /\ builds[n].smv_current_version = args.dev_name
           /\ builds[n].outputdir \in ExistingDirs

RefsAreSorted ==
    /\ pc # "get_refs"
    /\ \A n \in 1..Len(gitrefs) : ~symver_raises(gitrefs[n])

\* (major, minor) of a refname, as integers.
Major(ref) == Number(symver_match(refname(ref)).major)
Minor(ref) == Number(symver_match(refname(ref)).minor)

\* C8: the sorted refs are in the order of their (major, minor) pairs compared
\* as integers: no ref comes after one with a greater pair.
C8_SortedByMajorMinor ==
    RefsAreSorted =>
        \A m, n \in 1..Len(gitrefs) :
            m < n =>
                ~ \/ Major(gitrefs[n]) < Major(gitrefs[m])
                  \/ /\ Major(gitrefs[n]) = Major(gitrefs[m])
                     /\ Minor(gitrefs[n]) < Minor(gitrefs[m])

\* C9: after the metadata phase no two entries of metadata, the entry of the
\* development version included, have the same outputdir.
C9_NoDuplicateOutputdirs ==
    MetadataDone =>
        \A m, n \in 1..Len(metadata) :
            m # n => metadata[m].outputdir # metadata[n].outputdir

\* C10: when a local and a remote ref map to the same output directory, the
\* one that is collected is the local one unless smv_prefer_remote_refs, and
\* then the remote one.
C10_PreferenceDecidesConflicts ==
    \A m, n \in Processed :
        (/\ log[m] = "collected"
         /\ log[n] = "conflict"
         /\ OutputdirOf(gitrefs[m]) = OutputdirOf(gitrefs[n])
         /\ gitrefs[m].is_remote # gitrefs[n].is_remote)
        => gitrefs[m].is_remote = config.smv_prefer_remote_refs

====
